---- MODULE Spec2Model ----
(***************************************************************************)
(* Field-line classification scripts of python/IRBEM:                      *)
(*   classifying_foottype.py  (batch classifier and its __main__)          *)
(*   test_classifyer.py, test_classifier.py (single-point variants)        *)
(* The magnetic field model (MagFields) is an external collaborator: each  *)
(* of its calls returns a value or raises, chosen nondeterministically.    *)
(***************************************************************************)
EXTENDS Integers, Sequences, FiniteSets, TLC

VARIABLES
    output,            \* check_if_footpoint_found: the argument of a direct call
    found,             \* check_if_footpoint_found: its result
    names,             \* get_numeric_classification: arguments of direct calls
    codes,             \* get_numeric_classification: their results
    variant,           \* which file's classify_field_line is running
    pc,                \* position of the running program
    exc,               \* the exception that left the program, if any
    file,              \* the tab-separated input file
    df,                \* process_orbit_data: the DataFrame
    df0,               \* the DataFrame as read_csv returned it
    i,                 \* process_orbit_data: index of the row being iterated
    classifications,   \* process_orbit_data: the list of numeric codes
    position,          \* classify_field_line: argument
    dateTime,          \* classify_field_line: argument
    maginput,          \* classify_field_line: argument
    plot,              \* classify_field_line: argument (test_classifier.py)
    h,                 \* classify_field_line: index into hemiFlags
    footpoints_found,  \* classify_field_line: local counter
    classification,    \* classify_field_line: return value
    calls,             \* find_foot_point calls issued to the collaborator
    plotted,           \* plot_field_line was called
    outfile,           \* the file written by to_csv
    summary            \* the classification summary printed

vars == <<output, found, names, codes, variant, pc, exc, file, df, df0, i,
          classifications, position, dateTime, maginput, plot, h,
          footpoints_found, classification, calls, plotted, outfile, summary>>

unitVars == <<output, found, names, codes>>

progVars == <<variant, pc, exc, file, df, df0, i, classifications, position,
              dateTime, maginput, plot, h, footpoints_found, classification,
              calls, plotted, outfile, summary>>

(***************************************************************************)
(* Bounds                                                                  *)
(***************************************************************************)
MaxRows == 2

NumCalls == 2

(***************************************************************************)
(* Python values                                                           *)
(***************************************************************************)
None == [type |-> "NoneType"]

Dict(items) == [type |-> "dict", items |-> items]

List(elems) == [type |-> "list", elems |-> elems]

\* dict.get(key): the value, or None when the key is absent
DictGet(d, key) == IF key \in DOMAIN d.items THEN d.items[key] ELSE None

\* A number m * 10^e; NaN is the float that equals nothing, itself included.
Num(m, e) == [type |-> "float", nan |-> FALSE, m |-> m, e |-> e]

NaN == [type |-> "float", nan |-> TRUE, m |-> 0, e |-> 0]

RECURSIVE Float64(_)
\* np.array(Xfoot): the float64 value of a number, one representative per value
\* (the int 9999 and the float 9999.0 become the same element).
Float64(x) ==
    IF x.nan THEN x
    ELSE IF x.m = 0 THEN Num(0, 0)
    ELSE IF x.m % 10 = 0 THEN Float64(Num(x.m \div 10, x.e + 1))
    ELSE x

\* Elementwise == of numpy: NaN equals nothing, numbers compare by value.
FloatEq(a, b) ==
    /\ ~a.nan
    /\ ~b.nan
    /\ Float64(a) = Float64(b)

\* 'baddata' values used in IRBEM
baddata == <<Num(1, 31), Num(-1, 31), Num(-9999, 0), Num(9999, 0)>>

\* np.isin(element, test_elements) for one element
IsIn(x, test) == \E k \in 1..Len(test) : FloatEq(x, test[k])

\* How a call ends: it returns a value or raises an exception.
Return(v) == [kind |-> "return", value |-> v]

Raise(e) == [kind |-> "raise", exc |-> e]

Pending == [kind |-> "pending"]

\* Variant: counts the good coordinates instead of testing for a bad one.
check_if_footpoint_found_CountGood(out) ==
    IF out.type # "dict" THEN Raise("AttributeError")
    ELSE LET Xfoot == DictGet(out, "XFOOT") IN
         IF Xfoot = None THEN Return(0)
         ELSE Return(Cardinality({k \in 1..Len(Xfoot.elems) :
                                     ~IsIn(Xfoot.elems[k], baddata)}))

\* 1 if a footpoint was found, 0 otherwise; output.get on a non-dict raises.
check_if_footpoint_found(out) ==
    IF out.type # "dict" THEN Raise("AttributeError")
    ELSE LET Xfoot == DictGet(out, "XFOOT") IN
         IF Xfoot = None THEN Return(0)
         ELSE IF \E k \in 1..Len(Xfoot.elems) : IsIn(Xfoot.elems[k], baddata)
              THEN Return(0)
              ELSE Return(1)

classification_map == [IMF |-> 1, open |-> 0, closed |-> 2]

\* Variant: open and IMF share a code.
get_numeric_classification_Merged(c) ==
    IF c = "closed" THEN 2 ELSE IF c \in {"open", "IMF"} THEN 1 ELSE -1

\* classification_map.get(classification, -1)
get_numeric_classification(c) ==
    IF c \in DOMAIN classification_map THEN classification_map[c] ELSE -1

\* A table: its column names in order, and its rows (column name -> cell).
Table(columns, rows) == [columns |-> columns, rows |-> rows]

NoTable == Table(<<>>, <<>>)

(***************************************************************************)
(* Direct calls of the two pure functions                                  *)
(***************************************************************************)
CoordValues ==
    { Num(1, 31), Num(-1, 31), Num(-9999, 0), Num(9999, 0),
      Num(99990, -1), Num(100, 0), Num(652, -1), NaN }

Triples == { <<a, b, c>> : a \in CoordValues, b \in CoordValues, c \in CoordValues }

\* What find_foot_point can hand to the validity check.
FootpointResults ==
    { None, Dict(<<>>), Dict("XFOOT" :> None), Dict("BFOOT" :> List(<<Num(100, 0)>>)) }
    \cup { Dict("XFOOT" :> List(t)) : t \in Triples }

ClassStrings ==
    { "closed", "open", "IMF", "Closed", "OPEN", "imf", "unknown", "", "2", "IMF " }

IdleProg ==
    /\ variant = "none"
    /\ pc = "idle"
    /\ exc = "none"
    /\ file = NoTable
    /\ df = NoTable
    /\ df0 = NoTable
    /\ i = 0
    /\ classifications = <<>>
    /\ position = None
    /\ dateTime = None
    /\ maginput = None
    /\ plot = FALSE
    /\ h = 0
    /\ footpoints_found = 0
    /\ classification = "none"
    /\ calls = <<>>
    /\ plotted = FALSE
    /\ outfile = NoTable
    /\ summary = None

IdleUnit ==
    /\ output = None
    /\ found = Pending
    /\ names = <<>>
    /\ codes = <<>>

InitCheck ==
    /\ output \in FootpointResults
    /\ found = Pending
    /\ names = <<>>
    /\ codes = <<>>
    /\ IdleProg

CallCheck ==
    /\ found = Pending
    /\ found' = check_if_footpoint_found(output)
    /\ UNCHANGED <<output, names, codes>>
    /\ UNCHANGED progVars

SpecCheck == InitCheck /\ [][CallCheck]_vars

InitNumeric ==
    /\ output = None
    /\ found = Pending
    /\ names \in [1..NumCalls -> ClassStrings]
    /\ codes = [k \in 1..NumCalls |-> Pending]
    /\ IdleProg

CallNumeric ==
    \E k \in 1..NumCalls :
        /\ codes[k] = Pending
        /\ codes' = [codes EXCEPT ![k] = Return(get_numeric_classification(names[k]))]
        /\ UNCHANGED <<output, found, names>>
        /\ UNCHANGED progVars

SpecNumeric == InitNumeric /\ [][CallNumeric]_vars

(***************************************************************************)
(* classify_field_line (the three variants)                                *)
(***************************************************************************)
Variants == { "classifying_foottype", "test_classifyer", "test_classifier" }

\* desired altitude of field-line crossing, km
stopAlt == 100

\* Variant: South first.
hemiFlags_SouthFirst == <<-1, 1>>

\* hemisphere flags: +1 for North, -1 for South
hemiFlags == <<1, -1>>

Range(f) == { f[k] : k \in DOMAIN f }

ValidXfoot == List(<<Num(100, 0), Num(652, -1), Num(100, 0)>>)

SentinelXfoot == List(<<Num(100, 0), Num(-9999, 0), Num(1, 31)>>)

\* What one find_foot_point call can do: raise, or return a result.
QueryOutcomes ==
    { Raise("Exception"),
      Return(None),
      Return(Dict("XFOOT" :> SentinelXfoot)),
      Return(Dict("XFOOT" :> ValidXfoot)) }

\* MagFields(...) can fail to construct; it is outside every try block.
ConstructOutcomes == { Raise("Exception"), Return(None) }

\* trace_field_line (test_classifier.py only): raises, or returns with or
\* without the POSIT key.
TraceOutcomes ==
    { Raise("Exception"),
      Return(Dict("Nposit" :> Num(0, 0))),
      Return(Dict("POSIT" :> List(<<>>))) }

LLA == [x1 |-> position.x1, x2 |-> position.x2, x3 |-> position.x3,
        dateTime |-> dateTime]

\* The body of the try block for one hemisphere, given what the collaborator
\* did: the debugging variants iterate output.items() before the check.
TryBody(o) ==
    IF o.kind = "raise" THEN o
    ELSE IF variant # "classifying_foottype" /\ o.value.type # "dict"
         THEN Raise("AttributeError")
         ELSE check_if_footpoint_found(o.value)

\* footpoints_found after one iteration: += inside try, untouched by except.
AfterTry(r, cnt) == IF r.kind = "return" THEN cnt + r.value ELSE cnt

\* Variant: the try block encloses the loop, so a failure ends it.
NextFlag_BreakOnError(r, k) == IF r.kind = "raise" THEN Len(hemiFlags) + 1 ELSE k + 1

\* The for loop goes on to the next flag whatever the try block did.
NextFlag(r, k) == k + 1

\* Variant: any footpoint makes the line closed.
ClassifyCount_AnyIsClosed(cnt) == IF cnt >= 1 THEN "closed" ELSE "IMF"

\* Classify based on number of footpoints
ClassifyCount(cnt) ==
    IF cnt = 2 THEN "closed"
    ELSE IF cnt = 1 THEN "open"
    ELSE "IMF"

\* Variant: the counter lives outside the call and is never reset.
InitialCount_Carried(cnt) == cnt

\* footpoints_found = 0: the count a call starts its loop with.
InitialCount(cnt) == 0

Construct ==
    /\ pc = "cfl_init"
    /\ \E o \in ConstructOutcomes :
         IF o.kind = "raise"
         THEN /\ pc' = "raised"
              /\ exc' = o.exc
              /\ UNCHANGED <<h, footpoints_found>>
         ELSE /\ pc' = IF variant = "test_classifier" THEN "cfl_trace" ELSE "cfl_loop"
              /\ h' = 1
              /\ footpoints_found' = InitialCount(footpoints_found)
              /\ exc' = exc
    /\ UNCHANGED <<variant, file, df, df0, i, classifications, position, dateTime,
                   maginput, plot, classification, calls, plotted, outfile, summary>>
    /\ UNCHANGED unitVars

Trace ==
    /\ pc = "cfl_trace"
    /\ \E o \in TraceOutcomes :
         IF o.kind = "raise"
         THEN /\ pc' = "raised"
              /\ exc' = o.exc
              /\ plotted' = plotted
         ELSE /\ pc' = "cfl_loop"
              /\ exc' = exc
              /\ plotted' = (plot /\ "POSIT" \in DOMAIN o.value.items)
    /\ UNCHANGED <<variant, file, df, df0, i, classifications, position, dateTime,
                   maginput, plot, h, footpoints_found, classification, calls,
                   outfile, summary>>
    /\ UNCHANGED unitVars

Query ==
    /\ pc = "cfl_loop"
    /\ h <= Len(hemiFlags)
    /\ \E o \in QueryOutcomes :
         LET r == TryBody(o) IN
         /\ calls' = Append(calls, [row |-> i, hemiFlag |-> hemiFlags[h],
                                    stopAlt |-> stopAlt, LLA |-> LLA,
                                    maginput |-> maginput, outcome |-> o])
         /\ footpoints_found' = AfterTry(r, footpoints_found)
         /\ h' = NextFlag(r, h)
    /\ UNCHANGED <<variant, pc, exc, file, df, df0, i, classifications, position,
                   dateTime, maginput, plot, classification, plotted, outfile,
                   summary>>
    /\ UNCHANGED unitVars

Classify ==
    /\ pc = "cfl_loop"
    /\ h > Len(hemiFlags)
    /\ classification' = ClassifyCount(footpoints_found)
    /\ pc' = "cfl_return"
    /\ UNCHANGED <<variant, exc, file, df, df0, i, classifications, position,
                   dateTime, maginput, plot, h, footpoints_found, calls, plotted,
                   outfile, summary>>
    /\ UNCHANGED unitVars

(***************************************************************************)
(* __main__ of the two single-point scripts                                *)
(***************************************************************************)
Frac(n, d) == [num |-> n, den |-> d]

Positions ==
    { [x1 |-> Frac(15, 2), x2 |-> Frac(3, 1), x3 |-> Frac(2, 1)],
      [x1 |-> Frac(4, 1), x2 |-> Frac(0, 1), x3 |-> Frac(0, 1)] }

InitCall ==
    /\ IdleUnit
    /\ variant \in Variants
    /\ pc = "cfl_init"
    /\ exc = "none"
    /\ file = NoTable
    /\ df = NoTable
    /\ df0 = NoTable
    /\ i = 0
    /\ classifications = <<>>
    /\ position \in Positions
    /\ dateTime = [type |-> "str", sep |-> "T", ymd |-> <<2024, 1, 1>>, hms |-> <<0, 0, 0>>]
    /\ maginput = [Pdyn |-> 2, Dst |-> 0, By |-> 0, Bz |-> 0]
    /\ plot \in IF variant = "test_classifier" THEN BOOLEAN ELSE {FALSE}
    /\ h = 0
    /\ footpoints_found = 0
    /\ classification = "none"
    /\ calls = <<>>
    /\ plotted = FALSE
    /\ outfile = NoTable
    /\ summary = None

\* print(f"The field line is classified as: {classification}")
PrintResult ==
    /\ pc = "cfl_return"
    /\ pc' = "exit"
    /\ UNCHANGED <<variant, exc, file, df, df0, i, classifications, position,
                   dateTime, maginput, plot, h, footpoints_found, classification,
                   calls, plotted, outfile, summary>>
    /\ UNCHANGED unitVars

NextCall == Construct \/ Trace \/ Query \/ Classify \/ PrintResult

SpecCall == InitCall /\ [][NextCall]_vars

(***************************************************************************)
(* classifying_foottype.py: process_orbit_data and __main__                *)
(***************************************************************************)
EarthRadius == 6371

BaseColumns ==
    <<"x(km)", "y(km)", "z(km)", "datetime", "Dst_index", "Pdyn", "BY_GSM", "BZ_GSM">>

Without(cols, c) == SelectSeq(cols, LAMBDA x : x # c)

\* Headers of the input files: the documented one, one that already carries
\* field_line_type, and two with a column missing.
Headers ==
    { BaseColumns,
      Append(BaseColumns, "field_line_type"),
      Without(BaseColumns, "Pdyn"),
      Without(BaseColumns, "datetime") }

\* Text of a datetime cell of the file; the empty cell has no fields.
DateText(ymd, hms) == [type |-> "text", sep |-> " ", ymd |-> ymd, hms |-> hms]

EmptyCell == [type |-> "text", sep |-> "", ymd |-> <<>>, hms |-> <<>>]

NaT == [type |-> "NaTType", ymd |-> <<>>, hms |-> <<>>]

RowKinds == { "a", "b", "malformed" }

\* The cell of a file row of a given kind under a column.
Cell(kind, c) ==
    CASE c = "x(km)" -> IF kind = "b" THEN 12742 ELSE 6371
      [] c = "y(km)" -> 0
      [] c = "z(km)" -> IF kind = "b" THEN 6371 ELSE 0
      [] c = "datetime" ->
            IF kind = "malformed" THEN EmptyCell
            ELSE DateText(<<2002, 1, 1>>, <<0, IF kind = "b" THEN 1 ELSE 0, 0>>)
      [] c = "Dst_index" -> -20
      [] c = "Pdyn" -> 2
      [] c = "BY_GSM" -> 1
      [] c = "BZ_GSM" -> -1
      [] c = "field_line_type" -> 2

Files ==
    { Table(hd, [k \in 1..n |-> [c \in Range(hd) |-> Cell(kinds[k], c)]]) :
        hd \in Headers, n \in 0..MaxRows, kinds \in [1..MaxRows -> RowKinds] }

\* parse_dates=['datetime']: text to Timestamp, the empty cell to NaT
ParseDate(cell) ==
    IF cell = EmptyCell THEN NaT
    ELSE [type |-> "Timestamp", ymd |-> cell.ymd, hms |-> cell.hms]

\* pd.read_csv(filepath, delimiter='\t', parse_dates=['datetime'])
read_csv(f) ==
    IF "datetime" \notin Range(f.columns) THEN Raise("ValueError")
    ELSE Return(Table(f.columns,
            [k \in 1..Len(f.rows) |->
                [c \in Range(f.columns) |->
                    IF c = "datetime" THEN ParseDate(f.rows[k][c]) ELSE f.rows[k][c]]]))

\* row['datetime'].strftime('%Y-%m-%dT%H:%M:%S')
strftime(ts) ==
    IF ts = NaT THEN Raise("ValueError")
    ELSE Return([type |-> "str", sep |-> "T", ymd |-> ts.ymd, hms |-> ts.hms])

\* Prepare maginput dictionary from dataframe row.
prepare_maginput(row) ==
    IF {"Dst_index", "Pdyn", "BY_GSM", "BZ_GSM"} \subseteq DOMAIN row
    THEN Return([Dst |-> row["Dst_index"], Pdyn |-> row["Pdyn"],
                 ByIMF |-> row["BY_GSM"], BzIMF |-> row["BZ_GSM"]])
    ELSE Raise("KeyError")

\* Lines 108-115: the arguments of classify_field_line built from a row, or
\* the exception building them raises.
RowInputs(row) ==
    IF ~({"x(km)", "y(km)", "z(km)"} \subseteq DOMAIN row) THEN Raise("KeyError")
    ELSE IF strftime(row["datetime"]).kind = "raise" THEN strftime(row["datetime"])
    ELSE IF prepare_maginput(row).kind = "raise" THEN prepare_maginput(row)
    ELSE Return([position |-> [x1 |-> Frac(row["x(km)"], EarthRadius),
                               x2 |-> Frac(row["y(km)"], EarthRadius),
                               x3 |-> Frac(row["z(km)"], EarthRadius)],
                 dateTime |-> strftime(row["datetime"]).value,
                 maginput |-> prepare_maginput(row).value])

\* Variant: the table comes back in reverse row order.
SetColumn_Reversed(d, name, values) ==
    LET cols == IF name \in Range(d.columns) THEN d.columns
                ELSE Append(d.columns, name)
    IN  Table(cols,
              [k \in 1..Len(d.rows) |->
                  [c \in Range(cols) |->
                      IF c = name THEN values[k] ELSE d.rows[Len(d.rows) + 1 - k][c]]])

\* df[name] = values: replaces the column when it exists, appends it otherwise.
SetColumn(d, name, values) ==
    LET cols == IF name \in Range(d.columns) THEN d.columns
                ELSE Append(d.columns, name)
    IN  Table(cols,
              [k \in 1..Len(d.rows) |->
                  [c \in Range(cols) |-> IF c = name THEN values[k] ELSE d.rows[k][c]]])

\* df.to_csv(output_filepath, sep='\t', index=False)
to_csv(d) ==
    Table(d.columns,
          [k \in 1..Len(d.rows) |->
              [c \in Range(d.columns) |->
                  IF c # "datetime" THEN d.rows[k][c]
                  ELSE IF d.rows[k][c] = NaT THEN EmptyCell
                  ELSE DateText(d.rows[k][c].ymd, d.rows[k][c].hms)]])

\* df['field_line_type'].value_counts().get(code, 0)
CountOf(d, code) ==
    Cardinality({k \in 1..Len(d.rows) : d.rows[k]["field_line_type"] = code})

Init ==
    /\ IdleUnit
    /\ variant = "classifying_foottype"
    /\ pc = "main"
    /\ exc = "none"
    /\ file \in Files
    /\ df = NoTable
    /\ df0 = NoTable
    /\ i = 0
    /\ classifications = <<>>
    /\ position = None
    /\ dateTime = None
    /\ maginput = None
    /\ plot = FALSE
    /\ h = 0
    /\ footpoints_found = 0
    /\ classification = "none"
    /\ calls = <<>>
    /\ plotted = FALSE
    /\ outfile = NoTable
    /\ summary = None

\* process_orbit_data is entered: read the file, start the empty list.
ReadCsv ==
    /\ pc = "main"
    /\ LET r == read_csv(file) IN
         IF r.kind = "raise"
         THEN /\ pc' = "raised"
              /\ exc' = r.exc
              /\ UNCHANGED <<df, df0, i, classifications>>
         ELSE /\ pc' = "iter"
              /\ exc' = exc
              /\ df' = r.value
              /\ df0' = r.value
              /\ i' = 1
              /\ classifications' = <<>>
    /\ UNCHANGED <<variant, file, position, dateTime, maginput, plot, h,
                   footpoints_found, classification, calls, plotted, outfile,
                   summary>>
    /\ UNCHANGED unitVars

\* Variant: a row that cannot be prepared is given the unknown code and skipped.
BeginRow_SkipBadRow ==
    /\ pc = "iter"
    /\ i <= Len(df.rows)
    /\ LET r == RowInputs(df.rows[i]) IN
         IF r.kind = "raise"
         THEN /\ pc' = "iter"
              /\ i' = i + 1
              /\ classifications' = Append(classifications, -1)
              /\ UNCHANGED <<exc, position, dateTime, maginput>>
         ELSE /\ pc' = "cfl_init"
              /\ exc' = exc
              /\ position' = r.value.position
              /\ dateTime' = r.value.dateTime
              /\ maginput' = r.value.maginput
              /\ UNCHANGED <<i, classifications>>
    /\ UNCHANGED <<variant, file, df, df0, plot, h, footpoints_found,
                   classification, calls, plotted, outfile, summary>>
    /\ UNCHANGED unitVars

\* The next row of df.iterrows(): build the arguments, call classify_field_line.
BeginRow ==
    /\ pc = "iter"
    /\ i <= Len(df.rows)
    /\ LET r == RowInputs(df.rows[i]) IN
         IF r.kind = "raise"
         THEN /\ pc' = "raised"
              /\ exc' = r.exc
              /\ UNCHANGED <<position, dateTime, maginput>>
         ELSE /\ pc' = "cfl_init"
              /\ exc' = exc
              /\ position' = r.value.position
              /\ dateTime' = r.value.dateTime
              /\ maginput' = r.value.maginput
    /\ UNCHANGED <<variant, file, df, df0, i, classifications, plot, h,
                   footpoints_found, classification, calls, plotted, outfile,
                   summary>>
    /\ UNCHANGED unitVars

\* classify_field_line returned: convert to numeric and append.
AppendRow ==
    /\ pc = "cfl_return"
    /\ classifications' =
          Append(classifications, get_numeric_classification(classification))
    /\ i' = i + 1
    /\ pc' = "iter"
    /\ UNCHANGED <<variant, exc, file, df, df0, position, dateTime, maginput, plot,
                   h, footpoints_found, classification, calls, plotted, outfile,
                   summary>>
    /\ UNCHANGED unitVars

\* The rows are exhausted: add the column and return df.
Attach ==
    /\ pc = "iter"
    /\ i > Len(df.rows)
    /\ df' = SetColumn(df, "field_line_type", classifications)
    /\ pc' = "returned"
    /\ UNCHANGED <<variant, exc, file, df0, i, classifications, position, dateTime,
                   maginput, plot, h, footpoints_found, classification, calls,
                   plotted, outfile, summary>>
    /\ UNCHANGED unitVars

\* Save results with same format as input
ToCsv ==
    /\ pc = "returned"
    /\ outfile' = to_csv(df)
    /\ pc' = "written"
    /\ UNCHANGED <<variant, exc, file, df, df0, i, classifications, position,
                   dateTime, maginput, plot, h, footpoints_found, classification,
                   calls, plotted, summary>>
    /\ UNCHANGED unitVars

\* Print summary
Summary ==
    /\ pc = "written"
    /\ summary' = [type |-> "summary", open |-> CountOf(df, 0),
                   IMF |-> CountOf(df, 1), closed |-> CountOf(df, 2)]
    /\ pc' = "exit"
    /\ UNCHANGED <<variant, exc, file, df, df0, i, classifications, position,
                   dateTime, maginput, plot, h, footpoints_found, classification,
                   calls, plotted, outfile>>
    /\ UNCHANGED unitVars

Next ==
    \/ ReadCsv
    \/ BeginRow
    \/ Construct
    \/ Query
    \/ Classify
    \/ AppendRow
    \/ Attach
    \/ ToCsv
    \/ Summary

Spec == Init /\ [][Next]_vars

(***************************************************************************)
(* Properties                                                              *)
(***************************************************************************)
\* The four bad-data values, as values.
Sentinels == { Num(1, 31), Num(-1, 31), Num(-9999, 0), Num(9999, 0) }

IsSentinel(x) == ~x.nan /\ Float64(x) \in Sentinels

HasTriple(out) ==
    /\ out.type = "dict"
    /\ "XFOOT" \in DOMAIN out.items
    /\ out.items["XFOOT"].type = "list"

\* A result carrying a coordinate triple none of whose coordinates is a sentinel.
GoodResult(out) ==
    /\ HasTriple(out)
    /\ \A k \in 1..Len(out.items["XFOOT"].elems) :
          ~IsSentinel(out.items["XFOOT"].elems[k])

\* A collaborator call that returned a valid (non-sentinel) footpoint.
ValidFootpoint(o) == o.kind = "return" /\ GoodResult(o.value)

Bit(b) == IF b THEN 1 ELSE 0

Finished == pc \in {"cfl_return", "exit"}

\* C1: check_if_footpoint_found returns 1 for every result whose three
\* coordinates are all outside the sentinel set, 0 when any coordinate is a
\* sentinel, and 0 when the result is absent/null or has no XFOOT triple.
C1_CheckIsTotal ==
    found # Pending =>
        /\ GoodResult(output) => found = Return(1)
        /\ (HasTriple(output) /\ ~GoodResult(output)) => found = Return(0)
        /\ ~HasTriple(output) => found = Return(0)

\* C2: footpoints_found is in {0, 1, 2} at every point of a run of
\* classify_field_line, and the returned classification is the fixed function
\* of the final count: 2 -> closed, 1 -> open, 0 -> IMF.
C2_CountDecidesClass ==
    /\ footpoints_found \in {0, 1, 2}
    /\ Finished =>
          /\ footpoints_found = 2 => classification = "closed"
          /\ footpoints_found = 1 => classification = "open"
          /\ footpoints_found = 0 => classification = "IMF"

C2_Witness ==
    /\ pc = "exit"
    /\ variant = "test_classifier"
    /\ footpoints_found = 1
    /\ classification = "open"
    /\ position.x1 = Frac(4, 1)

\* C3: a hemisphere query that raises adds 0 to footpoints_found and the other
\* hemisphere is still queried and counted: North raising and South valid
\* gives count 1 (open), and so does a valid North followed by South raising.
C3_RaiseAddsZero ==
    /\ (Len(calls) >= 1 /\ calls[1].outcome.kind = "raise" /\ pc = "cfl_loop") =>
          /\ h = Len(calls) + 1
          /\ footpoints_found = IF Len(calls) = 2 THEN Bit(ValidFootpoint(calls[2].outcome))
                                ELSE 0
    /\ Finished =>
          /\ Len(calls) = 2
          /\ (calls[1].outcome.kind = "raise" /\ ValidFootpoint(calls[2].outcome)) =>
                (footpoints_found = 1 /\ classification = "open")
          /\ (ValidFootpoint(calls[1].outcome) /\ calls[2].outcome.kind = "raise") =>
                (footpoints_found = 1 /\ classification = "open")
          /\ (calls[1].outcome.kind = "raise" /\ calls[2].outcome.kind = "raise") =>
                footpoints_found = 0

C3_Witness ==
    /\ pc = "exit"
    /\ calls[1].outcome.kind = "raise"
    /\ calls[1].hemiFlag = 1
    /\ ValidFootpoint(calls[2].outcome)
    /\ classification = "open"

\* C4: whatever the collaborator does on each of its calls, every variant of
\* classify_field_line ends by returning closed, open or IMF and never raises
\* to its caller.
C4_NeverRaises ==
    /\ pc # "raised"
    /\ Finished => classification \in {"closed", "open", "IMF"}

C6_NumericCodes ==
    \A k \in 1..Len(codes) :
        codes[k] # Pending =>
            /\ names[k] = "closed" => codes[k].value = 2
            /\ names[k] = "open" => codes[k].value = 0
            /\ names[k] = "IMF" => codes[k].value = 1
            /\ names[k] \notin {"closed", "open", "IMF"} => codes[k].value = -1
            /\ \A j \in 1..Len(codes) :
                  (/\ codes[j] # Pending
                   /\ codes[j].value = codes[k].value
                   /\ codes[k].value # -1) => names[j] = names[k]

C6_Witness ==
    /\ names[1] = "open"
    /\ names[2] = "Closed"
    /\ codes[1] = Return(0)
    /\ codes[2] = Return(-1)

\* The number of valid footpoints among the two queries of row k.
RowValid(k) ==
    Bit(ValidFootpoint(calls[2 * k - 1].outcome)) + Bit(ValidFootpoint(calls[2 * k].outcome))

\* C7: the code of every processed row is 2 exactly when both hemisphere
\* queries returned a valid footpoint, 0 exactly when one did, 1 exactly when
\* neither did; -1 is never written to field_line_type.
C7_CodeFromOutcomes ==
    /\ \A k \in 1..Len(classifications) :
          /\ Len(calls) >= 2 * k
          /\ classifications[k] = 2 <=> RowValid(k) = 2
          /\ classifications[k] = 0 <=> RowValid(k) = 1
          /\ classifications[k] = 1 <=> RowValid(k) = 0
          /\ classifications[k] # -1
    /\ pc \in {"returned", "written", "exit"} =>
          \A k \in 1..Len(df.rows) : df.rows[k]["field_line_type"] \in {0, 1, 2}

C7_Witness ==
    /\ pc = "exit"
    /\ classifications = <<0, 1>>
    /\ calls[1].outcome.kind = "raise"
    /\ ValidFootpoint(calls[2].outcome)
    /\ calls[3].outcome.kind = "raise"
    /\ calls[4].outcome = Return(Dict("XFOOT" :> SentinelXfoot))

\* C8: a run of classify_field_line that reaches the hemisphere loop issues
\* exactly two footpoint queries, North (+1) then South (-1), each with stop
\* altitude 100 km and the call's position, time and driver parameters; South
\* is queried whatever North did, and there is no third query.
C8_TwoQueriesInOrder ==
    /\ Len(calls) <= 2
    /\ pc = "cfl_loop" => Len(calls) = h - 1
    /\ Finished => Len(calls) = 2
    /\ \A k \in 1..Len(calls) :
          /\ calls[k].hemiFlag = IF k = 1 THEN 1 ELSE -1
          /\ calls[k].stopAlt = 100
          /\ calls[k].LLA = [x1 |-> position.x1, x2 |-> position.x2,
                             x3 |-> position.x3, dateTime |-> dateTime]
          /\ calls[k].maginput = maginput

C8_Witness ==
    /\ pc = "exit"
    /\ Len(calls) = 2
    /\ calls[1].outcome.kind = "raise"
    /\ calls[2].hemiFlag = -1
    /\ variant = "classifying_foottype"

\* A row whose arguments cannot be built: a column is missing or the
\* timestamp is not a time.
Malformed(row) ==
    \/ ~({"x(km)", "y(km)", "z(km)", "Dst_index", "Pdyn", "BY_GSM", "BZ_GSM"}
            \subseteq DOMAIN row)
    \/ row["datetime"] = NaT

\* C9: a failure in some row that classify_field_line does not absorb aborts
\* the batch: no later row is processed, nothing is retried, no table is
\* returned, no file is written and no summary printed; the file is written
\* only after every row has been classified.
C9_FailureAbortsBatch ==
    /\ pc = "raised" =>
          /\ ~ENABLED Next
          /\ exc # "none"
          /\ outfile = NoTable
          /\ summary = None
          /\ \A k \in 1..Len(calls) : calls[k].row <= i
    /\ (pc \in {"iter", "cfl_init", "cfl_loop", "cfl_return"}) =>
          \A k \in 1..(i - 1) : ~Malformed(df.rows[k])
    /\ pc \in {"returned", "written", "exit"} =>
          /\ Len(classifications) = Len(df0.rows)
          /\ \A k \in 1..Len(df0.rows) : ~Malformed(df0.rows[k])
    /\ outfile # NoTable => pc \in {"written", "exit"}
    /\ summary # None => pc = "exit"

C9_Witness ==
    /\ pc = "raised"
    /\ exc = "ValueError"
    /\ i = 2
    /\ Len(classifications) = 1
    /\ Len(calls) = 2
    /\ Len(df.rows) = 2

\* The position the batch passes for a row of the table read.
RowPosition(row) ==
    [x1 |-> Frac(row["x(km)"], 6371), x2 |-> Frac(row["y(km)"], 6371),
     x3 |-> Frac(row["z(km)"], 6371)]

\* C10: rows are processed one after the other in input order: the queries
\* of row i are both issued before any query of row i+1, the found-count of
\* every row starts at 0 and counts that row's queries only, and the k-th
\* field_line_type is the code computed from the k-th row.
C10_RowsInOrder ==
    /\ \A k \in 1..Len(calls) :
          /\ calls[k].row = (k + 1) \div 2
          /\ calls[k].row <= i
          /\ calls[k].LLA.x1 = RowPosition(df0.rows[calls[k].row]).x1
          /\ calls[k].LLA.x3 = RowPosition(df0.rows[calls[k].row]).x3
    /\ pc \in {"cfl_loop", "cfl_return"} =>
          /\ Len(calls) = 2 * (i - 1) + (h - 1)
          /\ footpoints_found =
                Cardinality({k \in 1..Len(calls) :
                               calls[k].row = i /\ ValidFootpoint(calls[k].outcome)})
    /\ pc \in {"returned", "written", "exit"} =>
          \A k \in 1..Len(df.rows) :
              df.rows[k]["field_line_type"] =
                  CASE RowValid(k) = 2 -> 2
                    [] RowValid(k) = 1 -> 0
                    [] RowValid(k) = 0 -> 1

C10_Witness ==
    /\ pc = "returned"
    /\ Len(df.rows) = 2
    /\ df.rows[1]["x(km)"] = 12742
    /\ df.rows[2]["x(km)"] = 6371
    /\ df.rows[1]["field_line_type"] = 2
    /\ df.rows[2]["field_line_type"] = 1

====
